---- MODULE Spec2Model ----
(***************************************************************************)
(* Model of the matching engine of DocumentFilter: MatchWorker in          *)
(* src/file_selector.py.  One run of MatchWorker.run is a state machine    *)
(* over the worker's locals; cancel() is an external action.               *)
(*                                                                         *)
(* Strings are sequences of code points (Nat): "1" = 49, "2" = 50,         *)
(* "a" = 97, "b" = 98, "." = 46, "-" = 45, "_" = 95, ";" = 59,             *)
(* newline = 10, space = 32.  A path is <<directory, basename>>.           *)
(* None is the empty tuple.                                                *)
(***************************************************************************)
EXTENDS Integers, Sequences, FiniteSets, TLC

(* ----------------------------- bounds ---------------------------------- *)
\* number of filler files added to a directory to make it "large"
NumFillers == 100
\* most files of the named universe a directory holds besides the fillers
MaxFiles == 2

(* ------------------------- program constants --------------------------- *)
ParallelThreshold == 100
batch_size == 1000
MinThreads == 4
TickEvery == 20

None == <<>>

(* ------------------------- string primitives --------------------------- *)
Max(a, b) == IF a >= b THEN a ELSE b

IsAlnum(c) == c \in (48..57) \cup (65..90) \cup (97..122)

Whitespace == {9, 10, 11, 12, 13, 28, 29, 30, 31, 32}

RECURSIVE LStrip(_)
LStrip(s) ==
    IF s = <<>> THEN <<>>
    ELSE IF Head(s) \in Whitespace THEN LStrip(Tail(s)) ELSE s

RECURSIVE RStrip(_)
RStrip(s) ==
    IF s = <<>> THEN <<>>
    ELSE IF s[Len(s)] \in Whitespace THEN RStrip(SubSeq(s, 1, Len(s) - 1)) ELSE s

\* str.strip()
Strip(s) == RStrip(LStrip(s))

\* str.startswith / str.endswith
StartsWith(s, p) == Len(p) <= Len(s) /\ SubSeq(s, 1, Len(p)) = p
EndsWith(s, p) == Len(p) <= Len(s) /\ SubSeq(s, Len(s) - Len(p) + 1, Len(s)) = p

\* `sub in s` on strings
Contains(sub, s) ==
    \E i \in 1..(Len(s) - Len(sub) + 1) : SubSeq(s, i, i + Len(sub) - 1) = sub

\* str.replace(';', '\n')
ReplaceSemicolon(s) == [i \in 1..Len(s) |-> IF s[i] = 59 THEN 10 ELSE s[i]]

\* str.split('\n'): the pieces between newlines, empty pieces included
RECURSIVE SplitLines(_, _)
SplitLines(s, cur) ==
    IF s = <<>> THEN <<cur>>
    ELSE IF Head(s) = 10 THEN <<cur>> \o SplitLines(Tail(s), <<>>)
    ELSE SplitLines(Tail(s), Append(cur, Head(s)))

\* os.path.basename of a path built by os.path.join(directory, f)
Basename(p) == p[2]

\* os.path.splitext(name)[0]: cut at the last dot unless only dots precede it
LastDot(n) ==
    LET ds == {i \in 1..Len(n) : n[i] = 46}
    IN IF ds = {} THEN 0 ELSE CHOOSE i \in ds : \A j \in ds : j <= i

Stem(n) ==
    LET d == LastDot(n)
    IN IF d > 0 /\ \E j \in 1..(d - 1) : n[j] # 46
       THEN SubSeq(n, 1, d - 1)
       ELSE n

\* re.compile(r'([a-zA-Z0-9]+)').match(name): the leading alphanumeric run,
\* <<>> when there is no match
RECURSIVE IdOf(_)
IdOf(n) ==
    IF n = <<>> \/ ~IsAlnum(Head(n)) THEN <<>>
    ELSE <<Head(n)>> \o IdOf(Tail(n))

\* a Python dict as a function; d[k] = v
Put(d, k, v) == (k :> v) @@ d
EmptyDict == [x \in {} |-> None]

\* the elements of a list, as a set
Range(s) == {s[i] : i \in 1..Len(s)}

\* `for x in items[lo..hi]: result.extend(f(x))`, evaluated by halving so
\* that a long list does not nest deeply
RECURSIVE ConcatMap(_, _, _, _)
ConcatMap(f(_), items, lo, hi) ==
    IF lo > hi THEN <<>>
    ELSE IF lo = hi THEN f(items[lo])
    ELSE LET mid == (lo + hi) \div 2
         IN ConcatMap(f, items, lo, mid) \o ConcatMap(f, items, mid + 1, hi)

\* `for x in items[lo..hi]: acc = step(acc, x)`, in list order; the first
\* half is computed (left = left) before the second half starts from it
RECURSIVE ForEach(_, _, _, _, _)
ForEach(step(_, _), acc, items, lo, hi) ==
    IF lo > hi THEN acc
    ELSE IF lo = hi THEN step(acc, items[lo])
    ELSE LET mid == (lo + hi) \div 2
             left == ForEach(step, acc, items, lo, mid)
         IN IF left = left THEN ForEach(step, left, items, mid + 1, hi)
            ELSE left

(* ------------------------------ inputs --------------------------------- *)
\* "1.a", "1.b", "_1.a"
SrcNames == { <<49, 46, 97>>, <<49, 46, 98>>, <<95, 49, 46, 97>> }
\* "1.a", "1.b", "12.a", "1-2.a"
TgtNames == { <<49, 46, 97>>, <<49, 46, 98>>, <<49, 50, 46, 97>>,
              <<49, 45, 50, 46, 97>> }
\* "", " ", "1;\n12", "12\n1", " 2 ;1;1"
Texts == { <<>>, <<32>>, <<49, 59, 10, 49, 50>>, <<49, 50, 10, 49>>,
           <<32, 50, 32, 59, 49, 59, 49>> }
\* the text "123" and the targets "123-original.wav", "1234-original.wav"
ScenarioText == <<49, 50, 51>>
Original == <<45, 111, 114, 105, 103, 105, 110, 97, 108, 46, 119, 97, 118>>
ScenarioTargets == { <<49, 50, 51>> \o Original, <<49, 50, 51, 52>> \o Original }
\* values os.cpu_count() returns; 0 stands for None
CpuCounts == {0, 2, 4}

\* the i-th filler file: a one-character name outside ASCII
Filler(i) == <<19967 + i>>

\* lists without repetition of at most MaxFiles names of U
NameLists(U) ==
    {q \in UNION {[1..k -> U] : k \in 0..MaxFiles} :
        \A i, j \in 1..Len(q) : i # j => q[i] # q[j]}

FileEntry(n) == [name |-> n, file |-> TRUE]
\* every directory also holds one subdirectory, named "1"
SubdirEntry == [name |-> <<49>>, file |-> FALSE]

\* the order os.listdir enumerates a directory holding the names of q and
\* pad fillers: the subdirectory, the first name, the fillers, the other names
Listing(q, pad) ==
    <<SubdirEntry>>
    \o [i \in 1..(IF Len(q) > 0 THEN 1 ELSE 0) |-> FileEntry(q[i])]
    \o [i \in 1..pad |-> FileEntry(Filler(i))]
    \o [i \in 1..(Len(q) - 1) |-> FileEntry(q[i + 1])]

\* the directories a configured path may name: a directory that lists, a
\* path that is no directory, a directory os.listdir is refused on
Directories(U, pad) ==
    {[kind |-> "dir", entries |-> Listing(q, pad)] : q \in NameLists(U)}
    \cup {[kind |-> k, entries |-> <<>>] : k \in {"missing", "denied"}}
NoDirectory == [kind |-> "missing", entries |-> <<>>]

(* ------------------------------- state --------------------------------- *)
VARIABLES
    \* MatchWorker.__init__ arguments
    match_method_index, source_dir, target_dir, match_basis, format_match,
    text_input, text_match_basis, expand_search, use_multithreading,
    thread_count,
    \* the file system: directory path -> kind and entries in listing order
    fs,
    \* position of run(), the cancellation flag, the emitted signals in
    \* order, and the directories os.listdir has been called on
    pc, is_cancelled, signals, listed,
    \* locals of run()
    source_files, target_files, target_dict, target_dict_no_ext, idx,
    s_dict, keywords, chunks, pending, completed,
    matched_pairs, matched_source_files, matched_keywords,
    unmatched_source_files, unmatched_keywords,
    \* the FileSelector window: its widgets and attributes, the number of
    \* signals of the current worker its slots have handled, the number of
    \* workers it has started, and whether it is inside match_files, before
    \* line 1764 (where worker.wait() blocks it)
    ui, handled, run, waiting

request == <<match_method_index, source_dir, target_dir, match_basis,
             format_match, text_input, text_match_basis, expand_search,
             use_multithreading, thread_count>>
window == <<ui, handled, run, waiting>>
\* what run() and cancel() never write
config == <<request, fs, window>>
locals == <<source_files, target_files, target_dict, target_dict_no_ext, idx,
            s_dict, keywords, chunks, pending, completed,
            matched_pairs, matched_source_files, matched_keywords,
            unmatched_source_files, unmatched_keywords>>
vars == <<config, pc, is_cancelled, signals, listed, locals>>

(* ------------------------------ the window ---------------------------- *)
\* FileSelector after construction.  table_run, lists_run, table_lists_run
\* and enabled_run record which worker (by number, 0 for none) filled the
\* table, stored the unmatched lists, stored the lists the table was built
\* from, and re-enabled the match button.
InitialUi ==
    [match_btn |-> TRUE, progress_visible |-> FALSE, progress_value |-> 0,
     cancel_visible |-> FALSE, cancel_enabled |-> TRUE,
     row_count |-> 0, matched_files |-> <<>>,
     has_unmatched |-> FALSE, unmatched_source_files |-> <<>>,
     unmatched_keywords |-> <<>>,
     \* process_files: self.processing and the locals operation,
     \* selected_files (what is left of it), processed, failed
     processing |-> FALSE, operation |-> "", selected_files |-> <<>>,
     processed |-> 0, failed |-> 0,
     table_run |-> 0, lists_run |-> 0, table_lists_run |-> 0,
     enabled_run |-> 0]

\* match_files, lines 1764-1775: clear the table, disable the match button,
\* show the progress bar and the cancel button
MatchFilesReset(u) ==
    [u EXCEPT !.row_count = 0, !.matched_files = <<>>, !.match_btn = FALSE,
              !.progress_visible = TRUE, !.progress_value = 0,
              !.cancel_visible = TRUE, !.cancel_enabled = TRUE,
              !.table_run = 0, !.table_lists_run = 0]

\* on_unmatched_ready, lines 2121-2124
OnUnmatchedReady(u, sig, r) ==
    [u EXCEPT !.has_unmatched = TRUE, !.unmatched_source_files = sig[2],
              !.unmatched_keywords = sig[3], !.lists_run = r]

\* on_match_result, lines 1836-1940: the button is re-enabled, the bar and
\* the cancel button are hidden, and the table gets the unmatched sources,
\* then the unmatched keywords, then the pairs
OnMatchResult(u, sig, r) ==
    LET us == IF u.has_unmatched THEN u.unmatched_source_files ELSE <<>>
        uk == IF u.has_unmatched THEN u.unmatched_keywords ELSE <<>>
        rows == [i \in 1..Len(us) |->
                    <<us[i], None, Basename(us[i]), <<>>, <<>>>>]
                \o [i \in 1..Len(uk) |-> <<None, None, uk[i], <<>>, <<>>>>]
                \o sig[2]
    IN [u EXCEPT !.match_btn = TRUE, !.progress_visible = FALSE,
                 !.cancel_visible = FALSE,
                 !.row_count = sig[3] + Len(us) + Len(uk),
                 !.matched_files = rows,
                 !.table_run = r, !.table_lists_run = u.lists_run,
                 !.enabled_run = r]

\* on_match_error, lines 1942-1950
OnMatchError(u, sig, r) ==
    [u EXCEPT !.match_btn = TRUE, !.progress_visible = FALSE,
              !.cancel_visible = FALSE, !.enabled_run = r]

\* on_match_progress, lines 1811-1815: int(value / total * 100); the float
\* product truncates to this quotient for the totals modelled here
OnMatchProgress(u, sig) ==
    [u EXCEPT !.progress_value =
        IF sig[3] > 0 THEN (sig[2] * 100) \div sig[3] ELSE 0]

\* on_file_counts_ready, lines 2083-2086: two labels, nothing else
OnFileCountsReady(u, sig) == u

\* the slot connected to the signal (lines 1801-1805), run on behalf of
\* worker number r
Handle(u, sig, r) ==
    CASE sig[1] = "unmatched_ready" -> OnUnmatchedReady(u, sig, r)
      [] sig[1] = "result_ready" -> OnMatchResult(u, sig, r)
      [] sig[1] = "error" -> OnMatchError(u, sig, r)
      [] sig[1] = "progress" -> OnMatchProgress(u, sig)
      [] sig[1] = "file_counts_ready" -> OnFileCountsReady(u, sig)

\* self.thread_count = max(4, os.cpu_count() or 4)
ThreadCount(cpu) == Max(MinThreads, IF cpu = 0 THEN MinThreads ELSE cpu)

\* the list the run hands to the thread pool when it is long enough
MayUseThreads ==
    \/ match_method_index = 0
    \/ match_method_index = 1 /\ text_match_basis # 0 /\ expand_search

Init ==
    /\ match_method_index \in {0, 1}
    /\ source_dir \in {"", "S"}
    /\ target_dir \in {"", "T"}
    /\ thread_count \in {ThreadCount(c) : c \in CpuCounts}
    /\ \/ /\ match_method_index = 0
          /\ match_basis \in {0, 1}
          /\ format_match \in (IF match_basis = 0 THEN BOOLEAN ELSE {TRUE})
          /\ text_input = <<>> /\ text_match_basis = 0 /\ expand_search = FALSE
       \/ /\ match_method_index = 1
          /\ match_basis = 0 /\ format_match = TRUE
          /\ text_input \in Texts \cup {ScenarioText}
          /\ text_match_basis \in (IF text_input = ScenarioText THEN {1}
                                   ELSE {0, 1})
          /\ expand_search \in (IF text_match_basis = 0
                                   \/ text_input = ScenarioText
                                THEN {FALSE} ELSE BOOLEAN)
    /\ use_multithreading \in (IF MayUseThreads THEN BOOLEAN ELSE {TRUE})
    \* the fillers go to the list the run may hand to the thread pool
    /\ \E pad \in (IF MayUseThreads THEN {0, NumFillers} ELSE {0}) :
        \E sd \in Directories(IF match_method_index = 0 THEN SrcNames ELSE {},
                              IF match_method_index = 0 /\ match_basis = 0
                              THEN pad ELSE 0),
           td \in Directories(IF text_input = ScenarioText
                              THEN ScenarioTargets ELSE TgtNames,
                              IF match_method_index = 0 /\ match_basis = 0
                              THEN 0 ELSE pad) :
            fs = [S |-> IF source_dir = "" THEN NoDirectory ELSE sd,
                  T |-> IF target_dir = "" THEN NoDirectory ELSE td]
    /\ pc = "start"
    /\ is_cancelled = FALSE
    /\ signals = <<>>
    /\ listed = {}
    \* the window has just started its first worker
    /\ ui = MatchFilesReset(InitialUi)
    /\ handled = 0 /\ run = 1 /\ waiting = FALSE
    /\ source_files = <<>> /\ target_files = <<>>
    /\ target_dict = EmptyDict /\ target_dict_no_ext = EmptyDict
    /\ idx = 0
    /\ s_dict = EmptyDict
    /\ keywords = <<>>
    /\ chunks = <<>> /\ pending = {} /\ completed = 0
    /\ matched_pairs = <<>>
    /\ matched_source_files = {} /\ matched_keywords = {}
    /\ unmatched_source_files = <<>> /\ unmatched_keywords = <<>>

(* --------------------------- file system ------------------------------- *)
\* os.path.isdir(d), for a non-empty path d
IsDir(d) == fs[d].kind # "missing"
\* os.listdir(d) raises OSError
ListdirRaises(d) == fs[d].kind # "dir"
\* [join(d, f) for f in os.listdir(d) if isfile(join(d, f))]
ListFiles(d) ==
    LET files == SelectSeq(fs[d].entries, LAMBDA e : e.file)
    IN [i \in 1..Len(files) |-> <<d, files[i].name>>]

\* MatchWorker._load_files
LoadFiles(d) == IF d = "" \/ ~IsDir(d) THEN <<>> ELSE ListFiles(d)
LoadRaises(d) == d # "" /\ IsDir(d) /\ ListdirRaises(d)
\* _load_files calls os.listdir on d
LoadLists(d) == d # "" /\ IsDir(d)

\* variant: the items after the last full chunk are left out
SplitList_DropRemainder(items, num_chunks) ==
    IF items = <<>> THEN <<>>
    ELSE LET chunk_size == Max(1, Len(items) \div num_chunks)
         IN [c \in 1..(Len(items) \div chunk_size) |->
                SubSeq(items, (c - 1) * chunk_size + 1, c * chunk_size)]

\* MatchWorker._split_list
SplitList(items, num_chunks) ==
    IF items = <<>> THEN <<>>
    ELSE LET chunk_size == Max(1, Len(items) \div num_chunks)
             n == (Len(items) + chunk_size - 1) \div chunk_size
         IN [c \in 1..n |->
                SubSeq(items, (c - 1) * chunk_size + 1,
                       IF c * chunk_size < Len(items) THEN c * chunk_size
                       ELSE Len(items))]

(* ------------------------ directory-mode matching ---------------------- *)
\* run(), lines 263-269: index the targets of one batch
\* variant: a later target replaces the list of its stem
IndexTarget_Overwrite(dicts, t) ==
    <<Put(dicts[1], Basename(t), t), Put(dicts[2], Stem(Basename(t)), <<t>>)>>

IndexTarget(dicts, t) ==
    LET t_name == Basename(t)
        t_name_no_ext == Stem(t_name)
        old == IF t_name_no_ext \in DOMAIN dicts[2] THEN dicts[2][t_name_no_ext]
               ELSE <<>>
    IN <<Put(dicts[1], t_name, t), Put(dicts[2], t_name_no_ext, Append(old, t))>>

IndexTargets(batch, td, tdn) ==
    ForEach(IndexTarget, <<td, tdn>>, batch, 1, Len(batch))

\* variant: the extension is ignored whatever format_match says
ChunkNamePairs_StemOnly(s, td, tdn) ==
    LET s_name == Basename(s)
        s_name_no_ext == Stem(s_name)
    IN IF s_name_no_ext \in DOMAIN tdn
       THEN [i \in 1..Len(tdn[s_name_no_ext]) |->
                <<s, tdn[s_name_no_ext][i], s_name,
                  Basename(tdn[s_name_no_ext][i]), s_name_no_ext>>]
       ELSE <<>>

\* the pairs one source file gets in _process_chunk_by_name
ChunkNamePairs(s, td, tdn) ==
    LET s_name == Basename(s)
        s_name_no_ext == Stem(s_name)
    IN IF format_match
       THEN IF s_name \in DOMAIN td
            THEN << <<s, td[s_name], s_name, Basename(td[s_name]), s_name>> >>
            ELSE <<>>
       ELSE IF s_name_no_ext \in DOMAIN tdn
            THEN [i \in 1..Len(tdn[s_name_no_ext]) |->
                    <<s, tdn[s_name_no_ext][i], s_name,
                      Basename(tdn[s_name_no_ext][i]), s_name_no_ext>>]
            ELSE <<>>

\* variant: the first file of the chunk is passed over
ProcessChunkByName_SkipFirst(files, td, tdn) ==
    LET Pairs(s) == ChunkNamePairs(s, td, tdn)
    IN ConcatMap(Pairs, files, 2, Len(files))

\* MatchWorker._process_chunk_by_name
ProcessChunkByName(files, td, tdn) ==
    LET Pairs(s) == ChunkNamePairs(s, td, tdn)
    IN ConcatMap(Pairs, files, 1, Len(files))

\* the pairs one source file gets in the single-threaded loop, lines 310-329
SeqNamePairs(s, td, tdn) ==
    LET s_name == Basename(s)
        s_name_no_ext == Stem(s_name)
    IN IF format_match
       THEN IF s_name \in DOMAIN td
            THEN << <<s, td[s_name], s_name, Basename(td[s_name]), s_name>> >>
            ELSE <<>>
       ELSE IF s_name_no_ext \in DOMAIN tdn
            THEN [i \in 1..Len(tdn[s_name_no_ext]) |->
                    <<s, tdn[s_name_no_ext][i], s_name,
                      Basename(tdn[s_name_no_ext][i]), s_name_no_ext>>]
            ELSE <<>>

\* the single-threaded loop over source_files, lines 310-329
SeqByName(files, td, tdn) ==
    LET Pairs(s) == SeqNamePairs(s, td, tdn)
    IN ConcatMap(Pairs, files, 1, Len(files))

\* the source files the loops add to matched_source_files (lines 301-303,
\* 328-329, 372-374, 391): the non-None sources of the pairs
SourcesOf(pairs) == {pairs[i][1] : i \in 1..Len(pairs)} \ {None}

\* variant: a later source replaces the list of its id
IndexSource_Overwrite(sd, s) ==
    LET sid == IdOf(Basename(s))
    IN IF sid # <<>> THEN Put(sd, sid, <<s>>) ELSE sd

\* lines 339-348: index the source files by id
IndexSource(sd, s) ==
    LET sid == IdOf(Basename(s))
    IN IF sid # <<>>
       THEN Put(sd, sid, Append(IF sid \in DOMAIN sd THEN sd[sid] ELSE <<>>, s))
       ELSE sd

IndexSources(files, sd) == ForEach(IndexSource, sd, files, 1, Len(files))

\* the pairs one target file gets in _process_chunk_by_id
ChunkIdPairs(t, sd) ==
    LET t_name == Basename(t)
        tid == IdOf(t_name)
    IN IF tid # <<>> /\ tid \in DOMAIN sd
       THEN [i \in 1..Len(sd[tid]) |->
                <<sd[tid][i], t, Basename(sd[tid][i]), t_name, tid>>]
       ELSE <<>>

\* MatchWorker._process_chunk_by_id
ProcessChunkById(files, sd) ==
    LET Pairs(t) == ChunkIdPairs(t, sd)
    IN ConcatMap(Pairs, files, 1, Len(files))

\* the pairs one target file gets in the single-threaded loop, lines 382-391
SeqIdPairs(t, sd) ==
    LET t_name == Basename(t)
        tid == IdOf(t_name)
    IN IF tid # <<>> /\ tid \in DOMAIN sd
       THEN [i \in 1..Len(sd[tid]) |->
                <<sd[tid][i], t, Basename(sd[tid][i]), t_name, tid>>]
       ELSE <<>>

\* the single-threaded loop over target_files, lines 382-391
SeqById(files, sd) ==
    LET Pairs(t) == SeqIdPairs(t, sd)
    IN ConcatMap(Pairs, files, 1, Len(files))

\* variant: the list is not filtered by the matched set
Unmatched_NoFilter(files, matched) == files

\* variant: files without a leading alphanumeric character are left out too
Unmatched_DropNoId(files, matched) ==
    SelectSeq(files, LAMBDA s : s \notin matched /\ IsAlnum(s[2][1]))

\* line 398
Unmatched(files, matched) == SelectSeq(files, LAMBDA s : s \notin matched)

(* ------------------------------ progress ------------------------------- *)
Progress(c, t) == <<"progress", c, t>>

\* the ticks of a single-threaded loop over total items (lines 331-333)
SeqTicks(total) ==
    LET due == SelectSeq([c \in 1..total |-> c],
                         LAMBDA c : c % TickEvery = 0 \/ c = total)
    IN [i \in 1..Len(due) |-> Progress(due[i], total)]

\* variant: the share of the chunks still to come
ChunkProgress_Remaining(done, nchunks, total) ==
    ((nchunks - done) * total) \div nchunks

\* int((completed / len(chunks)) * total), lines 306, 377, 503; the float
\* product truncates to this quotient for the list lengths modelled here
ChunkProgress(done, nchunks, total) == (done * total) \div nchunks

\* a chunk may finish once a pool thread has picked it up: the pool runs
\* thread_count chunks at a time, in submission order
CanFinish(i) == i \in pending /\ i <= thread_count + completed

(* ------------------------- keyword-mode matching ----------------------- *)
\* variant: the pieces are kept as they are cut
ParseKeywords_NoStrip(filter_text) ==
    SelectSeq(SplitLines(ReplaceSemicolon(filter_text), <<>>),
              LAMBDA kw : Strip(kw) # <<>>)

\* line 414: split on ';' and newline, strip, drop the empty pieces
ParseKeywords(filter_text) ==
    LET pieces == SplitLines(ReplaceSemicolon(filter_text), <<>>)
        stripped == [i \in 1..Len(pieces) |-> Strip(pieces[i])]
    IN SelectSeq(stripped, LAMBDA kw : kw # <<>>)

\* lines 425-429: name_dict, stem -> (path, basename); a later target
\* overwrites an earlier one with the same stem
NameDictPut(nd, t) == Put(nd, Stem(Basename(t)), <<t, Basename(t)>>)

NameDict(files, nd) == ForEach(NameDictPut, nd, files, 1, Len(files))

\* lines 433-437
RECURSIVE FullPairs(_, _)
FullPairs(kws, nd) ==
    IF kws = <<>> THEN <<>>
    ELSE (IF Head(kws) \in DOMAIN nd
          THEN << <<None, nd[Head(kws)][1], <<>>, nd[Head(kws)][2], Head(kws)>> >>
          ELSE <<>>)
         \o FullPairs(Tail(kws), nd)

\* variant: no score for a stem that starts with the keyword and a separator
MatchScore_NoPrefix(t_name_no_ext, kw) ==
    IF t_name_no_ext = kw THEN 100
    ELSE IF EndsWith(t_name_no_ext, <<45>> \o kw)
            \/ EndsWith(t_name_no_ext, <<95>> \o kw) THEN 60
    ELSE 40

\* lines 457-468
MatchScore(t_name_no_ext, kw) ==
    IF t_name_no_ext = kw THEN 100
    ELSE IF StartsWith(t_name_no_ext, kw \o <<45>>)
            \/ StartsWith(t_name_no_ext, kw \o <<95>>) THEN 80
    ELSE IF EndsWith(t_name_no_ext, <<45>> \o kw)
            \/ EndsWith(t_name_no_ext, <<95>> \o kw) THEN 60
    ELSE 40

\* keyword_best_matches is an insertion-ordered dict: a list of
\* [kw, t, t_name, score] with one entry per keyword
BestIndex(best, kw) ==
    IF \E i \in 1..Len(best) : best[i].kw = kw
    THEN CHOOSE i \in 1..Len(best) : best[i].kw = kw
    ELSE 0

\* variant: a target of equal score replaces the retained one
BestUpdate_LastWins(best, t, kw) ==
    LET t_name == Basename(t)
        t_name_no_ext == Stem(t_name)
        match_score == MatchScore(t_name_no_ext, kw)
        entry == [kw |-> kw, t |-> t, t_name |-> t_name, score |-> match_score]
        at == BestIndex(best, kw)
    IN IF ~Contains(kw, t_name_no_ext) THEN best
       ELSE IF at = 0 THEN Append(best, entry)
       ELSE IF match_score >= best[at].score THEN [best EXCEPT ![at] = entry]
       ELSE best

\* lines 455-472 for one target and one keyword
BestUpdate(best, t, kw) ==
    LET t_name == Basename(t)
        t_name_no_ext == Stem(t_name)
        match_score == MatchScore(t_name_no_ext, kw)
        entry == [kw |-> kw, t |-> t, t_name |-> t_name, score |-> match_score]
        at == BestIndex(best, kw)
    IN IF ~Contains(kw, t_name_no_ext) THEN best
       ELSE IF at = 0 THEN Append(best, entry)
       ELSE IF match_score > best[at].score THEN [best EXCEPT ![at] = entry]
       ELSE best

\* lines 454-472: the inner loop over the keywords
RECURSIVE BestOverKeywords(_, _, _)
BestOverKeywords(best, t, kws) ==
    IF kws = <<>> THEN best
    ELSE BestOverKeywords(BestUpdate(best, t, Head(kws)), t, Tail(kws))

\* lines 450-472: the outer loop over the targets
BestMatches(best, files, kws) ==
    LET Step(b, t) == BestOverKeywords(b, t, kws)
    IN ForEach(Step, best, files, 1, Len(files))

\* lines 475-477
BestPairs(best) ==
    [i \in 1..Len(best) |->
        <<None, best[i].t, best[i].kw, best[i].t_name, best[i].kw>>]

\* lines 205-208: the first keyword contained in the name, then break
RECURSIVE FirstKeywordPair(_, _)
FirstKeywordPair(t, kws) ==
    IF kws = <<>> THEN <<>>
    ELSE IF Contains(Head(kws), Basename(t))
         THEN << <<None, t, Head(kws), Basename(t), Head(kws)>> >>
         ELSE FirstKeywordPair(t, Tail(kws))

\* variant: the first file of the chunk is passed over
ProcessChunkByText_SkipFirst(files, kws) ==
    LET Pairs(t) == FirstKeywordPair(t, kws)
    IN ConcatMap(Pairs, files, 2, Len(files))

\* MatchWorker._process_chunk_by_text
ProcessChunkByText(files, kws) ==
    LET Pairs(t) == FirstKeywordPair(t, kws)
    IN ConcatMap(Pairs, files, 1, Len(files))

\* lines 512-515: every keyword contained in the name (no break)
RECURSIVE EveryKeywordPair(_, _)
EveryKeywordPair(t, kws) ==
    IF kws = <<>> THEN <<>>
    ELSE (IF Contains(Head(kws), Basename(t))
          THEN << <<None, t, Head(kws), Basename(t), Head(kws)>> >>
          ELSE <<>>)
         \o EveryKeywordPair(t, Tail(kws))

\* the single-threaded loop over target_files, lines 508-515
SeqByText(files, kws) ==
    LET Pairs(t) == EveryKeywordPair(t, kws)
    IN ConcatMap(Pairs, files, 1, Len(files))

\* the keys the loops add to matched_keywords (lines 437, 477, 500, 515)
KeysOf(pairs) == {pairs[i][5] : i \in 1..Len(pairs)}

(* ------------------------------ actions -------------------------------- *)
Error(msg) == <<"error", msg>>

\* variant: a list of exactly the threshold length is parallelised too
UseThreads_AtLeast(items) ==
    use_multithreading /\ Len(items) >= ParallelThreshold

\* the with-block of a parallel path is entered
UseThreads(items) == use_multithreading /\ Len(items) > ParallelThreshold

\* MatchWorker.cancel, called from the UI thread at any time
Cancel ==
    /\ pc # "done"
    /\ ~is_cancelled
    /\ is_cancelled' = TRUE
    /\ UNCHANGED <<config, pc, signals, listed, locals>>

\* variant: the counts are not reported
RunCount_Silent ==
    /\ pc = "start"
    /\ pc' = IF is_cancelled THEN "done" ELSE "dispatch"
    /\ UNCHANGED <<config, is_cancelled, signals, listed, locals>>

\* run(), lines 213-231: count the files, emit file_counts_ready, poll the flag
RunCount ==
    /\ pc = "start"
    /\ LET srcOk == source_dir # "" /\ IsDir(source_dir)
           tgtOk == target_dir # "" /\ IsDir(target_dir)
           source_count == IF srcOk THEN Len(ListFiles(source_dir)) ELSE 0
           target_count == IF tgtOk THEN Len(ListFiles(target_dir)) ELSE 0
       IN IF srcOk /\ ListdirRaises(source_dir)
          THEN /\ listed' = listed \cup {source_dir}
               /\ signals' = Append(signals, Error("oserror"))
               /\ pc' = "done"
          ELSE IF tgtOk /\ ListdirRaises(target_dir)
          THEN /\ listed' = listed \cup {target_dir}
                               \cup (IF srcOk THEN {source_dir} ELSE {})
               /\ signals' = Append(signals, Error("oserror"))
               /\ pc' = "done"
          ELSE /\ listed' = listed \cup (IF srcOk THEN {source_dir} ELSE {})
                               \cup (IF tgtOk THEN {target_dir} ELSE {})
               /\ signals' = Append(signals,
                      <<"file_counts_ready", source_count, target_count>>)
               /\ pc' = IF is_cancelled THEN "done" ELSE "dispatch"
    /\ UNCHANGED <<config, is_cancelled, locals>>

\* variant: no return after error.emit, the run goes on loading
RunLoadSource_NoReturn ==
    /\ pc = "dispatch"
    /\ match_method_index = 0
    /\ signals' = (IF source_dir = "" \/ target_dir = ""
                   THEN Append(signals, Error("select_source_and_target"))
                   ELSE signals) \o <<Progress(0, 100)>>
    /\ source_files' = IF LoadRaises(source_dir) THEN <<>>
                       ELSE LoadFiles(source_dir)
    /\ listed' = listed \cup (IF LoadLists(source_dir) THEN {source_dir}
                              ELSE {})
    /\ pc' = IF is_cancelled THEN "done" ELSE "load_target"
    /\ UNCHANGED <<config, is_cancelled, target_files, target_dict,
                   target_dict_no_ext, idx, s_dict, keywords, chunks, pending,
                   completed, matched_pairs, matched_source_files,
                   matched_keywords, unmatched_source_files,
                   unmatched_keywords>>

\* run(), lines 237-246: check the directories, load the source files
RunLoadSource ==
    /\ pc = "dispatch"
    /\ match_method_index = 0
    /\ IF source_dir = "" \/ target_dir = ""
       THEN /\ signals' = Append(signals, Error("select_source_and_target"))
            /\ pc' = "done"
            /\ UNCHANGED <<listed, source_files>>
       ELSE IF LoadRaises(source_dir)
       THEN /\ signals' = signals \o <<Progress(0, 100), Error("oserror")>>
            /\ listed' = listed \cup {source_dir}
            /\ pc' = "done"
            /\ UNCHANGED source_files
       ELSE /\ signals' = Append(signals, Progress(0, 100))
            /\ source_files' = LoadFiles(source_dir)
            /\ listed' = listed \cup (IF LoadLists(source_dir)
                                      THEN {source_dir} ELSE {})
            /\ pc' = IF is_cancelled THEN "done" ELSE "load_target"
    /\ UNCHANGED <<config, is_cancelled, target_files, target_dict,
                   target_dict_no_ext, idx, s_dict, keywords, chunks, pending,
                   completed, matched_pairs, matched_source_files,
                   matched_keywords, unmatched_source_files,
                   unmatched_keywords>>

\* run(), lines 248-257: load the target files, start the index
RunLoadTarget ==
    /\ pc = "load_target"
    /\ IF LoadRaises(target_dir)
       THEN /\ signals' = signals \o <<Progress(10, 100), Error("oserror")>>
            /\ listed' = listed \cup {target_dir}
            /\ pc' = "done"
            /\ UNCHANGED target_files
       ELSE /\ target_files' = LoadFiles(target_dir)
            /\ listed' = listed \cup (IF LoadLists(target_dir)
                                      THEN {target_dir} ELSE {})
            /\ IF is_cancelled
               THEN /\ signals' = Append(signals, Progress(10, 100))
                    /\ pc' = "done"
               ELSE /\ signals' = signals \o <<Progress(10, 100),
                                               Progress(20, 100)>>
                    /\ pc' = "index"
    /\ target_dict' = EmptyDict
    /\ target_dict_no_ext' = EmptyDict
    /\ idx' = 0
    /\ UNCHANGED <<config, is_cancelled, source_files, s_dict, keywords,
                   chunks, pending, completed, matched_pairs,
                   matched_source_files, matched_keywords,
                   unmatched_source_files, unmatched_keywords>>

\* variant: the flag is not polled after a batch
RunIndexBatch_NoPoll ==
    /\ pc = "index"
    /\ idx < Len(target_files)
    /\ LET last == IF idx + batch_size < Len(target_files)
                   THEN idx + batch_size ELSE Len(target_files)
           batch == SubSeq(target_files, idx + 1, last)
           built == IndexTargets(batch, target_dict, target_dict_no_ext)
           progress == 20 + ((idx + Len(batch)) * 20) \div Len(target_files)
       IN /\ target_dict' = built[1]
          /\ target_dict_no_ext' = built[2]
          /\ idx' = idx + batch_size
          /\ signals' = Append(signals, Progress(progress, 100))
    /\ pc' = "index"
    /\ UNCHANGED <<config, is_cancelled, listed, source_files, target_files,
                   s_dict, keywords, chunks, pending, completed, matched_pairs,
                   matched_source_files, matched_keywords,
                   unmatched_source_files, unmatched_keywords>>

\* run(), lines 261-275: one batch of the index, then poll the flag
RunIndexBatch ==
    /\ pc = "index"
    /\ idx < Len(target_files)
    /\ LET last == IF idx + batch_size < Len(target_files)
                   THEN idx + batch_size ELSE Len(target_files)
           batch == SubSeq(target_files, idx + 1, last)
           built == IndexTargets(batch, target_dict, target_dict_no_ext)
           progress == 20 + ((idx + Len(batch)) * 20) \div Len(target_files)
       IN /\ target_dict' = built[1]
          /\ target_dict_no_ext' = built[2]
          /\ idx' = idx + batch_size
          /\ signals' = Append(signals, Progress(progress, 100))
    /\ pc' = IF is_cancelled THEN "done" ELSE "index"
    /\ UNCHANGED <<config, is_cancelled, listed, source_files, target_files,
                   s_dict, keywords, chunks, pending, completed, matched_pairs,
                   matched_source_files, matched_keywords,
                   unmatched_source_files, unmatched_keywords>>

\* the index loop has ended
Indexed == pc = "index" /\ idx >= Len(target_files)

\* run(), lines 277-281, 308-333, 398: full-name basis, single-threaded
RunNameSequential ==
    /\ Indexed
    /\ match_basis = 0
    /\ ~UseThreads(source_files)
    /\ LET pairs == SeqByName(source_files, target_dict, target_dict_no_ext)
       IN /\ matched_pairs' = pairs
          /\ matched_source_files' = SourcesOf(pairs)
          /\ unmatched_source_files' = Unmatched(source_files, SourcesOf(pairs))
    /\ signals' = signals \o SeqTicks(Len(source_files))
    /\ pc' = "emit"
    /\ UNCHANGED <<config, is_cancelled, listed, source_files, target_files,
                   target_dict, target_dict_no_ext, idx, s_dict, keywords,
                   chunks, pending, completed, matched_keywords,
                   unmatched_keywords>>

\* run(), lines 283-296: full-name basis, the chunks are submitted to the pool
RunNameSubmit ==
    /\ Indexed
    /\ match_basis = 0
    /\ UseThreads(source_files)
    /\ chunks' = SplitList(source_files, thread_count)
    /\ pending' = 1..Len(chunks')
    /\ completed' = 0
    /\ pc' = "merge_name"
    /\ UNCHANGED <<config, is_cancelled, signals, listed, source_files,
                   target_files, target_dict, target_dict_no_ext, idx, s_dict,
                   keywords, matched_pairs, matched_source_files,
                   matched_keywords, unmatched_source_files,
                   unmatched_keywords>>

\* run(), lines 297-307 (and 398 after the last one): chunk i completes and
\* the run merges its result
RunNameMerge(i) ==
    /\ pc = "merge_name"
    /\ CanFinish(i)
    /\ LET chunk_result == ProcessChunkByName(chunks[i], target_dict,
                                              target_dict_no_ext)
           total == Len(source_files)
       IN /\ matched_pairs' = matched_pairs \o chunk_result
          /\ matched_source_files' =
                matched_source_files \cup SourcesOf(chunk_result)
          /\ completed' = completed + 1
          /\ signals' = Append(signals,
                Progress(ChunkProgress(completed + 1, Len(chunks), total),
                         total))
    /\ pending' = pending \ {i}
    /\ IF pending' = {}
       THEN /\ unmatched_source_files' =
                    Unmatched(source_files, matched_source_files')
            /\ pc' = "emit"
       ELSE UNCHANGED <<unmatched_source_files, pc>>
    /\ UNCHANGED <<config, is_cancelled, listed, source_files, target_files,
                   target_dict, target_dict_no_ext, idx, s_dict, keywords,
                   chunks, matched_keywords, unmatched_keywords>>

\* run(), lines 335-351, 379-398: id basis, single-threaded
RunIdSequential ==
    /\ Indexed
    /\ match_basis # 0
    /\ ~UseThreads(target_files)
    /\ s_dict' = IndexSources(source_files, EmptyDict)
    /\ LET pairs == SeqById(target_files, s_dict')
       IN /\ matched_pairs' = pairs
          /\ matched_source_files' = SourcesOf(pairs)
          /\ unmatched_source_files' = Unmatched(source_files, SourcesOf(pairs))
    /\ signals' = signals \o SeqTicks(Len(target_files))
    /\ pc' = "emit"
    /\ UNCHANGED <<config, is_cancelled, listed, source_files, target_files,
                   target_dict, target_dict_no_ext, idx, keywords, chunks,
                   pending, completed, matched_keywords, unmatched_keywords>>

\* run(), lines 335-367: id basis, the chunks are submitted to the pool
RunIdSubmit ==
    /\ Indexed
    /\ match_basis # 0
    /\ UseThreads(target_files)
    /\ s_dict' = IndexSources(source_files, EmptyDict)
    /\ chunks' = SplitList(target_files, thread_count)
    /\ pending' = 1..Len(chunks')
    /\ completed' = 0
    /\ pc' = "merge_id"
    /\ UNCHANGED <<config, is_cancelled, signals, listed, source_files,
                   target_files, target_dict, target_dict_no_ext, idx,
                   keywords, matched_pairs, matched_source_files,
                   matched_keywords, unmatched_source_files,
                   unmatched_keywords>>

\* run(), lines 368-378 (and 398 after the last one)
RunIdMerge(i) ==
    /\ pc = "merge_id"
    /\ CanFinish(i)
    /\ LET chunk_result == ProcessChunkById(chunks[i], s_dict)
           total == Len(target_files)
       IN /\ matched_pairs' = matched_pairs \o chunk_result
          /\ matched_source_files' =
                matched_source_files \cup SourcesOf(chunk_result)
          /\ completed' = completed + 1
          /\ signals' = Append(signals,
                Progress(ChunkProgress(completed + 1, Len(chunks), total),
                         total))
    /\ pending' = pending \ {i}
    /\ IF pending' = {}
       THEN /\ unmatched_source_files' =
                    Unmatched(source_files, matched_source_files')
            /\ pc' = "emit"
       ELSE UNCHANGED <<unmatched_source_files, pc>>
    /\ UNCHANGED <<config, is_cancelled, listed, source_files, target_files,
                   target_dict, target_dict_no_ext, idx, s_dict, keywords,
                   chunks, matched_keywords, unmatched_keywords>>

\* variant: no return after the empty-text error, the run goes on
RunKeywordSetup_NoReturn ==
    /\ pc = "dispatch"
    /\ match_method_index = 1
    /\ IF target_dir = ""
       THEN /\ signals' = Append(signals, Error("select_target"))
            /\ pc' = "done"
            /\ UNCHANGED <<listed, keywords, target_files>>
       ELSE /\ keywords' = ParseKeywords(Strip(text_input))
            /\ listed' = listed \cup {target_dir}
            /\ signals' = (IF Strip(text_input) = <<>>
                           THEN Append(signals, Error("enter_text"))
                           ELSE signals)
                          \o (IF ListdirRaises(target_dir)
                              THEN <<Error("oserror")>> ELSE <<>>)
            /\ target_files' = IF ListdirRaises(target_dir) THEN <<>>
                               ELSE ListFiles(target_dir)
            /\ pc' = IF ListdirRaises(target_dir) THEN "done" ELSE "keyword"
    /\ UNCHANGED <<config, is_cancelled, source_files, target_dict,
                   target_dict_no_ext, idx, s_dict, chunks, pending, completed,
                   matched_pairs, matched_source_files, matched_keywords,
                   unmatched_source_files, unmatched_keywords>>

\* run(), lines 400-420: check the inputs, parse the keywords, list the
\* target directory (os.listdir without the isdir guard of _load_files)
RunKeywordSetup ==
    /\ pc = "dispatch"
    /\ match_method_index = 1
    /\ IF target_dir = ""
       THEN /\ signals' = Append(signals, Error("select_target"))
            /\ pc' = "done"
            /\ UNCHANGED <<listed, keywords, target_files>>
       ELSE IF Strip(text_input) = <<>>
       THEN /\ signals' = Append(signals, Error("enter_text"))
            /\ pc' = "done"
            /\ UNCHANGED <<listed, keywords, target_files>>
       ELSE /\ keywords' = ParseKeywords(Strip(text_input))
            /\ listed' = listed \cup {target_dir}
            /\ IF ListdirRaises(target_dir)
               THEN /\ signals' = Append(signals, Error("oserror"))
                    /\ pc' = "done"
                    /\ UNCHANGED target_files
               ELSE /\ target_files' = ListFiles(target_dir)
                    /\ pc' = "keyword"
                    /\ UNCHANGED signals
    /\ UNCHANGED <<config, is_cancelled, source_files, target_dict,
                   target_dict_no_ext, idx, s_dict, chunks, pending, completed,
                   matched_pairs, matched_source_files, matched_keywords,
                   unmatched_source_files, unmatched_keywords>>

\* variant: the membership test is inverted
UnmatchedKeywords_Inverted(kws, matched) ==
    SelectSeq(kws, LAMBDA kw : kw \in matched)

\* line 440, line 522
UnmatchedKeywords(kws, matched) == SelectSeq(kws, LAMBDA kw : kw \notin matched)

\* run(), lines 423-440: full match
RunKeywordFull ==
    /\ pc = "keyword"
    /\ text_match_basis = 0
    /\ LET pairs == FullPairs(keywords, NameDict(target_files, EmptyDict))
       IN /\ matched_pairs' = pairs
          /\ matched_keywords' = KeysOf(pairs)
          /\ unmatched_keywords' = UnmatchedKeywords(keywords, KeysOf(pairs))
    /\ pc' = "emit"
    /\ UNCHANGED <<config, is_cancelled, signals, listed, source_files,
                   target_files, target_dict, target_dict_no_ext, idx, s_dict,
                   keywords, chunks, pending, completed, matched_source_files,
                   unmatched_source_files>>

\* run(), lines 443-477, 522: substring search, best match per keyword
RunKeywordBest ==
    /\ pc = "keyword"
    /\ text_match_basis # 0
    /\ ~expand_search
    /\ LET pairs == BestPairs(BestMatches(<<>>, target_files, keywords))
       IN /\ matched_pairs' = pairs
          /\ matched_keywords' = KeysOf(pairs)
          /\ unmatched_keywords' = UnmatchedKeywords(keywords, KeysOf(pairs))
    /\ pc' = "emit"
    /\ UNCHANGED <<config, is_cancelled, signals, listed, source_files,
                   target_files, target_dict, target_dict_no_ext, idx, s_dict,
                   keywords, chunks, pending, completed, matched_source_files,
                   unmatched_source_files>>

\* run(), lines 443-444, 505-522: expanded search, single-threaded
RunTextSequential ==
    /\ pc = "keyword"
    /\ text_match_basis # 0
    /\ expand_search
    /\ ~UseThreads(target_files)
    /\ LET pairs == SeqByText(target_files, keywords)
       IN /\ matched_pairs' = pairs
          /\ matched_keywords' = KeysOf(pairs)
          /\ unmatched_keywords' = UnmatchedKeywords(keywords, KeysOf(pairs))
    /\ signals' = signals \o SeqTicks(Len(target_files))
    /\ pc' = "emit"
    /\ UNCHANGED <<config, is_cancelled, listed, source_files, target_files,
                   target_dict, target_dict_no_ext, idx, s_dict, keywords,
                   chunks, pending, completed, matched_source_files,
                   unmatched_source_files>>

\* run(), lines 481-494: expanded search, the chunks are submitted to the pool
RunTextSubmit ==
    /\ pc = "keyword"
    /\ text_match_basis # 0
    /\ expand_search
    /\ UseThreads(target_files)
    /\ chunks' = SplitList(target_files, thread_count)
    /\ pending' = 1..Len(chunks')
    /\ completed' = 0
    /\ pc' = "merge_text"
    /\ UNCHANGED <<config, is_cancelled, signals, listed, source_files,
                   target_files, target_dict, target_dict_no_ext, idx, s_dict,
                   keywords, matched_pairs, matched_source_files,
                   matched_keywords, unmatched_source_files,
                   unmatched_keywords>>

\* variant: the chunk strikes the keywords it matched off the shared list
RunTextMerge_Consume(i) ==
    /\ pc = "merge_text"
    /\ CanFinish(i)
    /\ LET chunk_result == ProcessChunkByText(chunks[i], keywords)
           total == Len(target_files)
       IN /\ matched_pairs' = matched_pairs \o chunk_result
          /\ matched_keywords' = matched_keywords \cup KeysOf(chunk_result)
          /\ keywords' = SelectSeq(keywords,
                                   LAMBDA kw : kw \notin KeysOf(chunk_result))
          /\ completed' = completed + 1
          /\ signals' = Append(signals,
                Progress(ChunkProgress(completed + 1, Len(chunks), total),
                         total))
    /\ pending' = pending \ {i}
    /\ IF pending' = {}
       THEN /\ unmatched_keywords' =
                    UnmatchedKeywords(keywords, matched_keywords')
            /\ pc' = "emit"
       ELSE UNCHANGED <<unmatched_keywords, pc>>
    /\ UNCHANGED <<config, is_cancelled, listed, source_files, target_files,
                   target_dict, target_dict_no_ext, idx, s_dict,
                   chunks, matched_source_files, unmatched_source_files>>

\* run(), lines 495-504 (and 522 after the last one)
RunTextMerge(i) ==
    /\ pc = "merge_text"
    /\ CanFinish(i)
    /\ LET chunk_result == ProcessChunkByText(chunks[i], keywords)
           total == Len(target_files)
       IN /\ matched_pairs' = matched_pairs \o chunk_result
          /\ matched_keywords' = matched_keywords \cup KeysOf(chunk_result)
          /\ completed' = completed + 1
          /\ signals' = Append(signals,
                Progress(ChunkProgress(completed + 1, Len(chunks), total),
                         total))
    /\ pending' = pending \ {i}
    /\ IF pending' = {}
       THEN /\ unmatched_keywords' =
                    UnmatchedKeywords(keywords, matched_keywords')
            /\ pc' = "emit"
       ELSE UNCHANGED <<unmatched_keywords, pc>>
    /\ UNCHANGED <<config, is_cancelled, listed, source_files, target_files,
                   target_dict, target_dict_no_ext, idx, s_dict, keywords,
                   chunks, matched_source_files, unmatched_source_files>>

\* lines 298, 369, 496 and 528-529: future.result() re-raises the exception
\* of a chunk; the with-block waits for the other chunks and run() emits error
RunChunkRaises(i) ==
    /\ pc \in {"merge_name", "merge_id", "merge_text"}
    /\ CanFinish(i)
    /\ signals' = Append(signals, Error("chunk_error"))
    /\ pending' = {}
    /\ pc' = "done"
    /\ UNCHANGED <<config, is_cancelled, listed, source_files, target_files,
                   target_dict, target_dict_no_ext, idx, s_dict, keywords,
                   chunks, completed, matched_pairs, matched_source_files,
                   matched_keywords, unmatched_source_files,
                   unmatched_keywords>>

\* variant: the pairs are sent before the unmatched lists
RunEmit_ResultFirst ==
    /\ pc = "emit"
    /\ signals' = signals \o
          << <<"result_ready", matched_pairs, Len(matched_pairs)>>,
             <<"unmatched_ready", unmatched_source_files, unmatched_keywords>> >>
    /\ pc' = "done"
    /\ UNCHANGED <<config, is_cancelled, listed, locals>>

\* run(), lines 524-527
RunEmit ==
    /\ pc = "emit"
    /\ signals' = signals \o
          << <<"unmatched_ready", unmatched_source_files, unmatched_keywords>>,
             <<"result_ready", matched_pairs, Len(matched_pairs)>> >>
    /\ pc' = "done"
    /\ UNCHANGED <<config, is_cancelled, listed, locals>>

Next ==
    \/ Cancel
    \/ RunCount
    \/ RunLoadSource
    \/ RunLoadTarget
    \/ RunIndexBatch
    \/ RunNameSequential
    \/ RunNameSubmit
    \/ \E i \in pending : RunNameMerge(i)
    \/ RunIdSequential
    \/ RunIdSubmit
    \/ \E i \in pending : RunIdMerge(i)
    \/ RunKeywordSetup
    \/ RunKeywordFull
    \/ RunKeywordBest
    \/ RunTextSequential
    \/ RunTextSubmit
    \/ \E i \in pending : RunTextMerge(i)
    \/ \E i \in pending : RunChunkRaises(i)
    \/ RunEmit

Spec == Init /\ [][Next]_vars

(* ---------------------- the window and its workers --------------------- *)
\* the window starts at most MaxRuns workers
MaxRuns == 3

\* QThread.isRunning() of self.worker
WorkerRunning == run > 0 /\ pc # "done"

\* the slots run for the signals of the current worker that are still queued
HandleForCurrent(u, sig) == Handle(u, sig, run)
ProcessEvents(u) ==
    ForEach(HandleForCurrent, u, signals, handled + 1, Len(signals))

\* match_files, lines 1764-1809: the window is reset, a new MatchWorker
\* replaces self.worker and is connected, QApplication.processEvents() runs
\* the slots of every signal still queued (they are the earlier worker's),
\* and the new worker is started
StartWorker ==
    /\ ui' = ProcessEvents(MatchFilesReset(ui))
    /\ handled' = 0
    /\ run' = run + 1
    /\ waiting' = FALSE
    /\ pc' = "start"
    /\ is_cancelled' = FALSE
    /\ signals' = <<>>
    /\ listed' = {}
    /\ source_files' = <<>> /\ target_files' = <<>>
    /\ target_dict' = EmptyDict /\ target_dict_no_ext' = EmptyDict
    /\ idx' = 0
    /\ s_dict' = EmptyDict
    /\ keywords' = <<>>
    /\ chunks' = <<>> /\ pending' = {} /\ completed' = 0
    /\ matched_pairs' = <<>>
    /\ matched_source_files' = {} /\ matched_keywords' = {}
    /\ unmatched_source_files' = <<>> /\ unmatched_keywords' = <<>>

\* match_files, lines 1758-1762, entered with the window in state u and h
\* signals handled: a running worker is cancelled and waited for; the UI
\* thread goes on at line 1764 once no worker runs
MatchFiles(u, h) ==
    /\ is_cancelled' = (WorkerRunning \/ is_cancelled)
    /\ waiting' = TRUE
    /\ ui' = u
    /\ handled' = h
    /\ UNCHANGED <<run, pc, signals, listed, locals>>

\* a click on the match button (connected at line 806); the user leaves the
\* inputs as they are.  While files are being deleted one worker is kept
\* in reserve for the match_files call that ends process_files.
MatchFilesClick ==
    /\ ~waiting
    /\ ui.match_btn
    /\ run + (IF ui.processing /\ ui.operation = "delete" THEN 1 ELSE 0)
         < MaxRuns
    /\ MatchFiles(ui, handled)
    /\ UNCHANGED <<request, fs>>

\* no worker runs, or self.worker.wait() has returned (line 1762):
\* match_files goes on
MatchFilesResume ==
    /\ waiting
    /\ ~WorkerRunning
    /\ StartWorker
    /\ UNCHANGED <<request, fs>>

\* the event loop of the UI thread runs the slot of the next queued signal
Deliver ==
    /\ ~waiting
    /\ handled < Len(signals)
    /\ ui' = Handle(ui, signals[handled + 1], run)
    /\ handled' = handled + 1
    /\ UNCHANGED <<request, fs, run, waiting, pc, is_cancelled, signals,
                   listed, locals>>

\* cancel_operation, lines 2088-2093, on a click on the cancel button
CancelOperation ==
    /\ ~waiting
    /\ ui.cancel_visible /\ ui.cancel_enabled
    /\ WorkerRunning
    /\ is_cancelled' = TRUE
    /\ ui' = [ui EXCEPT !.cancel_enabled = FALSE]
    /\ UNCHANGED <<request, fs, handled, run, waiting, pc, signals, listed,
                   locals>>

\* a row of the table that names a target file; these are the rows whose
\* checkbox on_match_result checks
Checked(row) == row[2] # None

FileExists(p) ==
    \E i \in 1..Len(fs[p[1]].entries) :
        fs[p[1]].entries[i].file /\ fs[p[1]].entries[i].name = p[2]
\* the file system after os.remove(p)
Removed(p) ==
    [fs EXCEPT ![p[1]].entries =
        SelectSeq(fs[p[1]].entries, LAMBDA e : ~(e.file /\ e.name = p[2]))]

\* process_files, lines 1974-2017: the user confirms the operation on the
\* rows checked by default
ProcessFilesStart(operation) ==
    /\ ~waiting
    /\ ~ui.processing
    /\ ui.row_count > 0
    /\ operation = "delete" => run < MaxRuns
    /\ LET selected_files == SelectSeq(ui.matched_files, Checked)
       IN /\ selected_files # <<>>
          /\ ui' = [ui EXCEPT !.progress_visible = TRUE,
                              !.progress_value = 0,
                              !.cancel_visible = TRUE,
                              !.cancel_enabled = TRUE,
                              !.processing = TRUE,
                              !.operation = operation,
                              !.selected_files = selected_files,
                              !.processed = 0, !.failed = 0]
    /\ UNCHANGED <<request, fs, handled, run, waiting, pc, is_cancelled,
                   signals, listed, locals>>

\* process_files, lines 2027-2062: one turn of the loop; copying or removing
\* a file that is gone raises and counts as failed, and the turn ends with
\* QApplication.processEvents(), which runs the slots of the queued signals
ProcessFilesStep ==
    /\ ~waiting
    /\ ui.processing
    /\ ui.selected_files # <<>>
    /\ LET t == Head(ui.selected_files)[2]
           ok == FileExists(t)
           processed == ui.processed + (IF ok THEN 1 ELSE 0)
           failed == ui.failed + (IF ok THEN 0 ELSE 1)
       IN /\ fs' = IF ok /\ ui.operation = "delete" THEN Removed(t) ELSE fs
          /\ ui' = ProcessEvents(
                     [ui EXCEPT !.selected_files = Tail(ui.selected_files),
                                !.processed = processed, !.failed = failed,
                                !.progress_value = processed + failed])
    /\ handled' = Len(signals)
    /\ UNCHANGED <<request, run, waiting, pc, is_cancelled, signals, listed,
                   locals>>

\* process_files, lines 2063-2081: the loop is over, or the timer of lines
\* 2019-2021 has seen the cancel button disabled; the bar and the cancel button
\* are hidden, the message box runs the slots of the queued signals while
\* it is open, and a delete that removed a file ends in match_files
ProcessFilesEnd ==
    /\ ~waiting
    /\ ui.processing
    /\ ui.selected_files = <<>> \/ ~ui.cancel_enabled
    /\ LET u == ProcessEvents([ui EXCEPT !.progress_visible = FALSE,
                                         !.cancel_visible = FALSE,
                                         !.processing = FALSE,
                                         !.selected_files = <<>>])
       IN IF ui.operation = "delete" /\ ui.processed > 0
          THEN MatchFiles(u, Len(signals))
          ELSE /\ ui' = u
               /\ handled' = Len(signals)
               /\ UNCHANGED <<run, waiting, pc, is_cancelled, signals,
                              listed, locals>>
    /\ UNCHANGED <<request, fs>>

\* the window after construction, for a handful of inputs: both modes, a
\* target directory chosen or not, directories of at most two files
UiTexts == { <<49>>, <<49, 59, 50>> }
UiInit ==
    /\ match_method_index \in {0, 1}
    /\ source_dir = "S"
    /\ target_dir \in {"", "T"}
    /\ thread_count = ThreadCount(0)
    /\ match_basis = 0 /\ format_match = TRUE
    /\ text_input \in (IF match_method_index = 0 THEN {<<>>} ELSE UiTexts)
    /\ text_match_basis = 0 /\ expand_search = FALSE
    /\ use_multithreading = TRUE
    /\ \E sd \in Directories({<<49, 46, 97>>}, 0),
          td \in Directories({<<49, 46, 97>>, <<49, 46, 98>>}, 0) :
            fs = [S |-> sd,
                  T |-> IF target_dir = "" THEN NoDirectory ELSE td]
    /\ pc = "done"
    /\ is_cancelled = FALSE
    /\ signals = <<>>
    /\ listed = {}
    /\ source_files = <<>> /\ target_files = <<>>
    /\ target_dict = EmptyDict /\ target_dict_no_ext = EmptyDict
    /\ idx = 0
    /\ s_dict = EmptyDict
    /\ keywords = <<>>
    /\ chunks = <<>> /\ pending = {} /\ completed = 0
    /\ matched_pairs = <<>>
    /\ matched_source_files = {} /\ matched_keywords = {}
    /\ unmatched_source_files = <<>> /\ unmatched_keywords = <<>>
    /\ ui = InitialUi
    /\ handled = 0 /\ run = 0 /\ waiting = FALSE

\* the steps of run() these inputs lead to
WorkerStep ==
    \/ RunCount
    \/ RunLoadSource
    \/ RunLoadTarget
    \/ RunIndexBatch
    \/ RunNameSequential
    \/ RunKeywordSetup
    \/ RunKeywordFull
    \/ RunEmit

UiNext ==
    \/ WorkerStep
    \/ MatchFilesClick
    \/ MatchFilesResume
    \/ Deliver
    \/ CancelOperation
    \/ \E operation \in {"copy", "delete"} : ProcessFilesStart(operation)
    \/ ProcessFilesStep
    \/ ProcessFilesEnd

UiSpec == UiInit /\ [][UiNext]_vars

\* the worker thread keeps running, and so does the UI thread: its event
\* loop, a wait() whose thread has ended, the loop of process_files.  What
\* the user does is left to the user.
UiLive ==
    /\ UiSpec
    /\ WF_vars(WorkerStep)
    /\ WF_vars(MatchFilesResume)
    /\ WF_vars(Deliver)
    /\ WF_vars(ProcessFilesStep)
    /\ WF_vars(ProcessFilesEnd)

(* ------------------------ observations of a run ------------------------ *)
Emitted(kind) == \E i \in 1..Len(signals) : signals[i][1] = kind
CountOf(kind) == Cardinality({i \in 1..Len(signals) : signals[i][1] = kind})
ResultPairs ==
    LET i == CHOOSE j \in 1..Len(signals) : signals[j][1] = "result_ready"
    IN signals[i][2]
UnmatchedSources ==
    LET i == CHOOSE j \in 1..Len(signals) : signals[j][1] = "unmatched_ready"
    IN signals[i][2]
UnmatchedKeywordList ==
    LET i == CHOOSE j \in 1..Len(signals) : signals[j][1] = "unmatched_ready"
    IN signals[i][3]

TypeOK ==
    /\ pc \in {"start", "dispatch", "load_target", "index", "merge_name",
               "merge_id", "keyword", "merge_text", "emit", "done"}
    /\ is_cancelled \in BOOLEAN
    /\ completed \in 0..Len(chunks)

(* ----------------------- vocabulary of the claims ----------------------- *)
\* the regular files of a directory of the file system
FilesIn(d) ==
    {<<d, fs[d].entries[i].name>> :
        i \in {j \in 1..Len(fs[d].entries) : fs[d].entries[j].file}}
ScannedSources == IF source_dir = "" THEN {} ELSE FilesIn(source_dir)
ScannedTargets == IF target_dir = "" THEN {} ELSE FilesIn(target_dir)

NoLeadingAlnum(n) == n = <<>> \/ ~IsAlnum(n[1])
BlankText == \A i \in 1..Len(text_input) : text_input[i] \in Whitespace

DirectoryMode == match_method_index = 0
KeywordMode == match_method_index = 1
ChunkPhases == {"merge_name", "merge_id", "merge_text"}
UsedThreads == chunks # <<>>

\* a required input is missing
MissingInput ==
    \/ DirectoryMode /\ (source_dir = "" \/ target_dir = "")
    \/ KeywordMode /\ (target_dir = "" \/ BlankText)

\* the pairs a run over the listings sf and tf ends with when it does or
\* does not use the thread pool, chunk results taken in submission order
ChunkwiseByName(sf, td, tdn) ==
    LET cs == SplitList(sf, thread_count)
        Pairs(c) == ProcessChunkByName(c, td, tdn)
    IN ConcatMap(Pairs, cs, 1, Len(cs))
ChunkwiseById(tf, sd) ==
    LET cs == SplitList(tf, thread_count)
        Pairs(c) == ProcessChunkById(c, sd)
    IN ConcatMap(Pairs, cs, 1, Len(cs))
ChunkwiseByText(tf, kws) ==
    LET cs == SplitList(tf, thread_count)
        Pairs(c) == ProcessChunkByText(c, kws)
    IN ConcatMap(Pairs, cs, 1, Len(cs))

PairsOfRun(mt, sf, tf) ==
    IF DirectoryMode
    THEN IF match_basis = 0
         THEN LET dicts == IndexTargets(tf, EmptyDict, EmptyDict)
              IN IF mt /\ Len(sf) > ParallelThreshold
                 THEN ChunkwiseByName(sf, dicts[1], dicts[2])
                 ELSE SeqByName(sf, dicts[1], dicts[2])
         ELSE LET sd == IndexSources(sf, EmptyDict)
              IN IF mt /\ Len(tf) > ParallelThreshold
                 THEN ChunkwiseById(tf, sd)
                 ELSE SeqById(tf, sd)
    ELSE IF text_match_basis = 0
         THEN FullPairs(keywords, NameDict(tf, EmptyDict))
         ELSE IF ~expand_search
         THEN BestPairs(BestMatches(<<>>, tf, keywords))
         ELSE IF mt /\ Len(tf) > ParallelThreshold
         THEN ChunkwiseByText(tf, keywords)
         ELSE SeqByText(tf, keywords)

\* two other orders in which a listing may enumerate the same files
Reverse(q) == [i \in 1..Len(q) |-> q[Len(q) + 1 - i]]
Rotate(q) == [i \in 1..Len(q) |-> q[(i % Len(q)) + 1]]
Reorderings(q) == {Reverse(q), Rotate(q)}

(* ------------------------------- claims -------------------------------- *)

\* C1: after a directory-mode run that emits a result, no source path is both
\* the source of a pair and in the unmatched-source list, and every scanned
\* source with an extractable key (all of them under the full-name basis,
\* those with a leading alphanumeric id under the id basis) is in one of them.
C1_Partition ==
    (DirectoryMode /\ Emitted("result_ready")) =>
        LET paired == SourcesOf(ResultPairs)
            unmatched == Range(UnmatchedSources)
        IN /\ paired \cap unmatched = {}
           /\ \A s \in ScannedSources :
                (match_basis = 0 \/ ~NoLeadingAlnum(s[2]))
                    => s \in paired \cup unmatched
           /\ paired \cup unmatched \subseteq ScannedSources

C1_Witness ==
    /\ DirectoryMode /\ Emitted("result_ready") /\ UsedThreads
    /\ SourcesOf(ResultPairs) # {}
    /\ \E s \in Range(UnmatchedSources) : IsAlnum(s[2][1])

\* C2 (as claimed): under the id basis a scanned source whose basename has no
\* leading alphanumeric character is neither the source of a pair nor in the
\* unmatched-source list.
C2_DroppedFromBoth ==
    (DirectoryMode /\ match_basis # 0 /\ Emitted("result_ready")) =>
        \A s \in ScannedSources :
            NoLeadingAlnum(s[2]) =>
                /\ s \notin SourcesOf(ResultPairs)
                /\ s \notin Range(UnmatchedSources)

\* C2 (amended): under the id basis a scanned source whose basename has no
\* leading alphanumeric character is the source of no pair and is reported in
\* the unmatched-source list.
C2_ReportedUnmatched ==
    (DirectoryMode /\ match_basis # 0 /\ Emitted("result_ready")) =>
        \A s \in ScannedSources :
            NoLeadingAlnum(s[2]) =>
                /\ s \notin SourcesOf(ResultPairs)
                /\ s \in Range(UnmatchedSources)

C2_Witness ==
    /\ DirectoryMode /\ match_basis # 0 /\ Emitted("result_ready")
    /\ \E s \in ScannedSources : NoLeadingAlnum(s[2])
    /\ \E t \in ScannedTargets : ~NoLeadingAlnum(t[2])
    /\ SourcesOf(ResultPairs) # {}

\* C3: for every strategy the set of pairs a run emits with
\* use_multithreading=True equals the set it emits with
\* use_multithreading=False on the same listings and keywords.
C3_SameSetEitherWay ==
    Emitted("result_ready") =>
        Range(ResultPairs) =
            Range(PairsOfRun(~use_multithreading, source_files, target_files))

\* C4: once cancel() has been called during the chunk-processing phase, no
\* chunk result is merged any more and the run does not go on to emit a result.
C4_CancelStopsChunks ==
    [][(is_cancelled /\ pc \in ChunkPhases)
        => (matched_pairs' = matched_pairs /\ pc' # "emit")]_vars

\* C5: result_ready and error are each emitted at most once and never both,
\* and when error is emitted neither result_ready nor unmatched_ready has been.
C5_OneTerminalSignal ==
    /\ CountOf("result_ready") <= 1
    /\ CountOf("error") <= 1
    /\ ~(Emitted("result_ready") /\ Emitted("error"))
    /\ Emitted("error") => ~Emitted("unmatched_ready")
    /\ Emitted("error") => signals[Len(signals)][1] = "error"

C5_Witness ==
    /\ Emitted("error") /\ UsedThreads /\ completed > 0
    /\ matched_pairs # <<>>

\* C6: every run ends with exactly one terminal signal (a result, an error or
\* a cancellation acknowledgment).
C6_ExactlyOneTerminal ==
    pc = "done" =>
        CountOf("result_ready") + CountOf("error") + CountOf("cancelled") = 1

\* C7 (as claimed): when a required input is missing the run emits error
\* before any directory is listed and before any other signal, and emits no
\* result, whether or not cancel() was called.
C7_ErrorFirst ==
    (MissingInput /\ pc = "done") =>
        /\ signals # <<>> /\ signals[1][1] = "error"
        /\ listed = {}
        /\ ~Emitted("result_ready")

\* C7 (amended): when a required input is missing the run first counts the
\* files of the configured directories (listing them) and emits
\* file_counts_ready; if the cancellation flag is set when polled after the
\* count the run ends there, otherwise error is the next and last signal; no
\* progress, unmatched_ready or result_ready is ever emitted.  If the count
\* itself fails, error is the only signal.
C7_ErrorAfterCount ==
    MissingInput =>
        /\ ~Emitted("result_ready")
        /\ ~Emitted("unmatched_ready")
        /\ ~Emitted("progress")
        /\ pc = "done" =>
            \/ /\ Len(signals) = 2
               /\ signals[1][1] = "file_counts_ready"
               /\ signals[2][1] = "error"
               /\ listed = {d \in {source_dir, target_dir} \ {""} :
                              fs[d].kind = "dir"}
            \/ /\ Len(signals) = 1
               /\ signals[1][1] = "file_counts_ready"
               /\ is_cancelled
            \/ /\ signals = <<Error("oserror")>>
               /\ \E d \in {source_dir, target_dir} \ {""} :
                      fs[d].kind = "denied"

C7_Witness ==
    /\ MissingInput /\ pc = "done" /\ is_cancelled
    /\ Len(signals) = 2 /\ signals[2][1] = "error"
    /\ listed # {}

\* C8: a configured directory path that does not exist is treated as an empty
\* file set in every mode: the run raises no error on it and, unless it is
\* cancelled or a chunk fails, completes with result_ready.
C8_MissingDirIsEmpty ==
    (/\ ~MissingInput
     /\ \E d \in {source_dir, target_dir} \ {""} : fs[d].kind = "missing"
     /\ \A d \in {source_dir, target_dir} \ {""} : fs[d].kind # "denied")
    => /\ Error("oserror") \notin Range(signals)
       /\ (pc = "done" /\ ~is_cancelled /\ ~Emitted("error"))
            => Emitted("result_ready")

\* C9: after a keyword-mode run that emits a result, the unmatched keywords
\* are exactly the parsed keywords that are the key of no emitted pair.
C9_KeywordComplement ==
    (KeywordMode /\ Emitted("result_ready")) =>
        Range(UnmatchedKeywordList) = Range(keywords) \ KeysOf(ResultPairs)

C9_Witness ==
    /\ KeywordMode /\ Emitted("result_ready") /\ UsedThreads
    /\ ResultPairs # <<>>
    /\ UnmatchedKeywordList # <<>>

\* C10 (as claimed): for every strategy the emitted pair set is the same
\* whatever order the directory listings enumerate the files in.
C10_AnyListingOrder ==
    Emitted("result_ready") =>
        \A sf \in Reorderings(source_files), tf \in Reorderings(target_files) :
            Range(ResultPairs) = Range(PairsOfRun(use_multithreading, sf, tf))

\* C10 (amended): the emitted pair set is a function of the request and of
\* the listings in the order enumerated, whatever the chunk completion order;
\* under the full-name basis, the id basis and the expanded keyword search it
\* does not depend on the listing order either.  (Under the full and the
\* best-match keyword search, targets that tie are resolved by listing order.)
C10_SameListingSameSet ==
    Emitted("result_ready") =>
        /\ Range(ResultPairs) =
              Range(PairsOfRun(use_multithreading, source_files, target_files))
        /\ (DirectoryMode \/ (text_match_basis # 0 /\ expand_search)) =>
              \A sf \in Reorderings(source_files),
                 tf \in Reorderings(target_files) :
                  Range(ResultPairs) =
                      Range(PairsOfRun(use_multithreading, sf, tf))

C10_Witness ==
    /\ Emitted("result_ready") /\ UsedThreads
    /\ DirectoryMode /\ match_basis = 0 /\ ~format_match
    /\ Len(ResultPairs) >= 2
    /\ \E i, j \in 1..Len(ResultPairs) :
          i < j /\ Stem(ResultPairs[i][4]) = Stem(ResultPairs[j][4])
                /\ ResultPairs[i][2] # ResultPairs[j][2]

\* the list a run hands to the thread pool when it parallelises
ParallelList ==
    IF DirectoryMode /\ match_basis = 0 THEN source_files ELSE target_files

\* C11: chunks exist only if use_multithreading is true and the parallelised
\* list has strictly more than 100 entries; with 100 or fewer entries, or with
\* use_multithreading false, no chunk is ever created and the pairs are those
\* of one sequential pass over the whole list, in list order.
C11_ThreadsOnlyAboveThreshold ==
    /\ UsedThreads =>
          use_multithreading /\ MayUseThreads /\ Len(ParallelList) > 100
    /\ (~use_multithreading \/ Len(ParallelList) <= 100) =>
          /\ chunks = <<>> /\ pending = {}
          /\ pc \notin ChunkPhases
          /\ Emitted("result_ready") =>
                ResultPairs = PairsOfRun(FALSE, source_files, target_files)

C11_Witness ==
    /\ use_multithreading /\ MayUseThreads
    /\ Len(ParallelList) = 100
    /\ Emitted("result_ready") /\ ~UsedThreads

\* C12: splitting a list of n > 100 items for count = max(4, cpu count)
\* workers gives exactly count chunks, each of ceil(n / count) items except
\* that the last may be shorter, so there are never more chunks than workers.
C12_ExactlyCountChunks ==
    UsedThreads =>
        LET n == Len(ParallelList)
            size == (n + thread_count - 1) \div thread_count
        IN /\ Len(chunks) = thread_count
           /\ \A c \in 1..(Len(chunks) - 1) : Len(chunks[c]) = size
           /\ Len(chunks[Len(chunks)]) \in 1..size

\* some configured directory refuses os.listdir
CountFails ==
    \E d \in {source_dir, target_dir} \ {""} : fs[d].kind = "denied"

ProgressOf(sig) == SelectSeq(sig, LAMBDA e : e[1] = "progress")
NonDecreasing(ps) == \A i \in 1..(Len(ps) - 1) : ps[i][2] <= ps[i + 1][2]
\* a step of the setup phase (loading and indexing, lines 243-275)
SetupStep ==
    pc \in {"dispatch", "load_target", "index"}
    /\ pc' \notin ChunkPhases \cup {"emit"}
\* a step that goes on with an item-processing phase already begun
LaterMergeStep == pc \in ChunkPhases /\ completed > 0

\* C14: within the setup phase (total 100) and within the item-processing
\* phase (total = item count) the completed value of successive progress
\* events never decreases, and every progress event has
\* 0 <= completed <= total, for every chunk completion order.
C14_ProgressMonotone ==
    [][LET old == ProgressOf(signals)
           new == ProgressOf(SubSeq(signals', Len(signals) + 1, Len(signals')))
           phase == IF (SetupStep \/ LaterMergeStep) /\ old # <<>>
                    THEN <<old[Len(old)]>> \o new
                    ELSE new
       IN /\ NonDecreasing(phase)
          /\ \A i \in 1..Len(phase) :
                /\ 0 <= phase[i][2] /\ phase[i][2] <= phase[i][3]
                /\ phase[i][3] = IF SetupStep THEN 100 ELSE Len(ParallelList)
      ]_vars

C14_Witness ==
    /\ DirectoryMode /\ UsedThreads /\ Emitted("result_ready")
    /\ completed = Len(chunks) /\ completed > 4
    /\ Len(ProgressOf(signals)) = 4 + completed

\* the emitted pairs whose source is s, in order
PairsFrom(s) == SelectSeq(ResultPairs, LAMBDA p : p[1] = s)

\* C15: under the full-name basis with format_match true, a source file is
\* the source of exactly one pair when some target has the same full
\* basename and of none otherwise; that pair's target basename and match key
\* both equal the source basename.
C15_ExactNameWithExtension ==
    (DirectoryMode /\ match_basis = 0 /\ format_match
        /\ Emitted("result_ready")) =>
        /\ \A s \in ScannedSources :
              PairsFrom(s) =
                  IF <<target_dir, s[2]>> \in ScannedTargets
                  THEN << <<s, <<target_dir, s[2]>>, s[2], s[2], s[2]>> >>
                  ELSE <<>>
        /\ SourcesOf(ResultPairs) \subseteq ScannedSources
        /\ Range(UnmatchedSources) =
              {s \in ScannedSources : <<target_dir, s[2]>> \notin ScannedTargets}

\* sources "1.a" and "1.b" against targets "1.a" and one of another stem
C15_Witness ==
    /\ DirectoryMode /\ match_basis = 0 /\ format_match
    /\ Emitted("result_ready") /\ UsedThreads
    /\ Len(ResultPairs) = 1
    /\ ResultPairs[1][3] = <<49, 46, 97>>
    /\ <<source_dir, <<49, 46, 98>>>> \in Range(UnmatchedSources)
    /\ \E t \in ScannedTargets : Stem(t[2]) # <<49>>

\* the scanned targets whose stem is that of the source s
SameStemTargets(s) == {t \in ScannedTargets : Stem(t[2]) = Stem(s[2])}

\* C16: under the full-name basis with format_match false, a source file is
\* the source of as many pairs as there are targets with its stem, one pair
\* per such target, each keyed by the stem; the source is recorded as matched
\* once and is not reported unmatched.
C16_StemFanOut ==
    (DirectoryMode /\ match_basis = 0 /\ ~format_match
        /\ Emitted("result_ready")) =>
        /\ \A s \in ScannedSources :
              LET ps == PairsFrom(s)
              IN /\ Len(ps) = Cardinality(SameStemTargets(s))
                 /\ {ps[i][2] : i \in 1..Len(ps)} = SameStemTargets(s)
                 /\ \A i \in 1..Len(ps) :
                        /\ ps[i][3] = s[2]
                        /\ ps[i][4] = ps[i][2][2]
                        /\ ps[i][5] = Stem(s[2])
                 /\ (ps # <<>>) = (s \in matched_source_files)
                 /\ (ps = <<>>) = (s \in Range(UnmatchedSources))
        /\ SourcesOf(ResultPairs) \subseteq ScannedSources

\* one source whose stem two targets share, on the sequential path
C16_Witness ==
    /\ DirectoryMode /\ match_basis = 0 /\ ~format_match
    /\ Emitted("result_ready") /\ ~UsedThreads
    /\ \E s \in ScannedSources :
          /\ Len(PairsFrom(s)) = 2
          /\ PairsFrom(s)[1][2] # PairsFrom(s)[2][2]
          /\ s \notin Range(UnmatchedSources)
    /\ UnmatchedSources # <<>>

\* the longest prefix of n made of ASCII letters and digits
LeadingRun(n) ==
    SubSeq(n, 1, Cardinality({j \in 1..Len(n) :
                                 \A i \in 1..j : IsAlnum(n[i])}))

\* every (source, target) combination sharing a non-empty leading run
SameIdPairs ==
    {<<s, t, s[2], t[2], LeadingRun(s[2])>> :
        <<s, t>> \in {st \in ScannedSources \X ScannedTargets :
                        /\ LeadingRun(st[1][2]) # <<>>
                        /\ LeadingRun(st[1][2]) = LeadingRun(st[2][2])}}

\* C17: under the id basis the emitted pairs are exactly the (source, target)
\* combinations whose basenames start with the same non-empty alphanumeric
\* run, each once and keyed by that run, so a sources and b targets of one id
\* give a*b pairs; a file without a leading alphanumeric character is in no
\* pair.
C17_IdCrossProduct ==
    (DirectoryMode /\ match_basis # 0 /\ Emitted("result_ready")) =>
        /\ Range(ResultPairs) = SameIdPairs
        /\ Len(ResultPairs) = Cardinality(SameIdPairs)
        /\ \A i \in 1..Len(ResultPairs) :
              /\ ~NoLeadingAlnum(ResultPairs[i][3])
              /\ ~NoLeadingAlnum(ResultPairs[i][4])

\* two sources and two targets of id "1", and a target of another id
C17_Witness ==
    /\ DirectoryMode /\ match_basis # 0 /\ Emitted("result_ready")
    /\ UsedThreads
    /\ Len(ResultPairs) = 4
    /\ \A i \in 1..4 : ResultPairs[i][5] = <<49>>
    /\ UnmatchedSources = <<>>

\* the positions of the emitted pairs keyed by k
PairsKeyed(k) == {i \in 1..Len(ResultPairs) : ResultPairs[i][5] = k}
\* the last file of the listing tf whose stem is k
LastWithStem(tf, k) ==
    LET at == {i \in 1..Len(tf) : Stem(tf[i][2]) = k}
    IN tf[CHOOSE i \in at : \A j \in at : j <= i]

\* C18: under the full keyword match, for every parsed keyword sequence, a
\* pair keyed k is emitted only if some target's stem equals k, the result
\* holds at most one pair per keyword k, and the pair points to the last
\* listed target of that stem.
C18_OnePairPerKeyword ==
    (KeywordMode /\ text_match_basis = 0 /\ Emitted("result_ready")) =>
        /\ \A i \in 1..Len(ResultPairs) :
              /\ \E t \in ScannedTargets : Stem(t[2]) = ResultPairs[i][5]
              /\ ResultPairs[i][2] =
                    LastWithStem(target_files, ResultPairs[i][5])
        /\ \A k \in Range(keywords) : Cardinality(PairsKeyed(k)) <= 1

\* the score the claim gives the target stem st for the keyword k
ClaimedScore(st, k) ==
    IF st = k THEN 100
    ELSE IF \E sep \in {45, 95} : StartsWith(st, Append(k, sep)) THEN 80
    ELSE IF \E sep \in {45, 95} : EndsWith(st, <<sep>> \o k) THEN 60
    ELSE 40
\* the positions in the listing of the targets whose stem contains k
Candidates(k) ==
    {i \in 1..Len(target_files) : Contains(k, Stem(target_files[i][2]))}
\* the position in the listing of the target retained for k
Retained(k) ==
    LET p == ResultPairs[CHOOSE i \in PairsKeyed(k) : TRUE]
    IN CHOOSE i \in 1..Len(target_files) : target_files[i] = p[2]
ScoreAt(i, k) == ClaimedScore(Stem(target_files[i][2]), k)

\* C19: under the best-match keyword search each keyword yields no pair when
\* no target stem contains it and one pair otherwise; the retained target
\* scores (100 equal, 80 keyword then - or _, 60 - or _ then keyword, 40
\* other containment) at least as high as every other candidate and is the
\* first in scan order among those of the highest score.
C19_BestScoreFirstWins ==
    (KeywordMode /\ text_match_basis # 0 /\ ~expand_search
        /\ Emitted("result_ready")) =>
        /\ \A i \in 1..Len(ResultPairs) :
              ResultPairs[i][5] \in Range(keywords)
        /\ \A k \in Range(keywords) :
              IF Candidates(k) = {} THEN PairsKeyed(k) = {}
              ELSE /\ Cardinality(PairsKeyed(k)) = 1
                   /\ Retained(k) \in Candidates(k)
                   /\ \A j \in Candidates(k) :
                         \/ ScoreAt(j, k) < ScoreAt(Retained(k), k)
                         \/ /\ ScoreAt(j, k) = ScoreAt(Retained(k), k)
                            /\ Retained(k) <= j

\* a later target of higher score replaced an earlier candidate, and two
\* keywords are matched
C19_Witness ==
    /\ KeywordMode /\ text_match_basis # 0 /\ ~expand_search
    /\ Emitted("result_ready")
    /\ Len(ResultPairs) = 2
    /\ \E k \in Range(keywords) :
          /\ Cardinality(Candidates(k)) = 2
          /\ Retained(k) = 2
          /\ ScoreAt(1, k) = 80 /\ ScoreAt(2, k) = 100

\* the emitted pairs whose target is t, in order
PairsTo(t) == SelectSeq(ResultPairs, LAMBDA p : p[2] = t)
\* the positions of the keywords that are substrings of the file name n
KeywordsIn(n) == {i \in 1..Len(keywords) : Contains(keywords[i], n)}

\* C20: under the expanded keyword search, on the sequential and on the
\* parallel path alike, a target whose file name contains some keyword
\* contributes exactly one pair, keyed by the first keyword in request order
\* that its name contains, and any other target contributes none.
C20_OnePairPerTarget ==
    (KeywordMode /\ text_match_basis # 0 /\ expand_search
        /\ Emitted("result_ready")) =>
        \A t \in ScannedTargets :
            IF KeywordsIn(t[2]) = {} THEN PairsTo(t) = <<>>
            ELSE /\ Len(PairsTo(t)) = 1
                 /\ PairsTo(t)[1][5] =
                       keywords[CHOOSE i \in KeywordsIn(t[2]) :
                                   \A j \in KeywordsIn(t[2]) : i <= j]

\* scenario C: the best-match search for "123" over the two scenario targets
ScenarioC ==
    /\ KeywordMode /\ text_match_basis # 0 /\ ~expand_search
    /\ keywords = <<ScenarioText>>
    /\ {target_files[i][2] : i \in 1..Len(target_files)} = ScenarioTargets
    /\ Emitted("result_ready")
Name123 == <<49, 50, 51>> \o Original
Name1234 == <<49, 50, 51, 52>> \o Original

\* C21 (as claimed): in scenario C, in either scan order, exactly one pair is
\* emitted, keyed "123" and pointing to 123-original.wav, retained with score
\* 100 against 40 for 1234-original.wav, and no keyword is unmatched.
C21_Score100Beats40 ==
    ScenarioC =>
        /\ Len(ResultPairs) = 1
        /\ ResultPairs[1][5] = ScenarioText
        /\ ResultPairs[1][4] = Name123
        /\ MatchScore(Stem(Name123), ScenarioText) = 100
        /\ MatchScore(Stem(Name1234), ScenarioText) = 40
        /\ UnmatchedKeywordList = <<>>

\* C21 (amended): in scenario C, in either scan order, exactly one pair is
\* emitted, keyed "123" and pointing to 123-original.wav, retained with score
\* 80 (the stem starts with the keyword and "-") against 40 for
\* 1234-original.wav, and no keyword is unmatched.
C21_Score80Beats40 ==
    ScenarioC =>
        /\ Len(ResultPairs) = 1
        /\ ResultPairs[1][5] = ScenarioText
        /\ ResultPairs[1][4] = Name123
        /\ ResultPairs[1][2] = <<target_dir, Name123>>
        /\ MatchScore(Stem(Name123), ScenarioText) = 80
        /\ MatchScore(Stem(Name1234), ScenarioText) = 40
        /\ UnmatchedKeywordList = <<>>

\* scenario C with 1234-original.wav scanned first
C21_Witness ==
    /\ ScenarioC
    /\ target_files[1][2] = Name1234 /\ target_files[2][2] = Name123
    /\ pc = "done"

\* the next step of a directory-mode run executes one of the polls of lines
\* 230, 245, 250 and 274: the count does not raise, both directories are
\* configured once the count is done, and a batch is left to index
PollAhead ==
    /\ DirectoryMode /\ ~CountFails
    /\ \/ pc = "start"
       \/ pc = "dispatch" /\ source_dir # "" /\ target_dir # ""
       \/ pc = "load_target"
       \/ pc = "index" /\ idx < Len(target_files)

\* C22: in a directory-mode run the flag is polled after the count, after
\* loading each directory and after each index batch; when cancel() was
\* called before such a poll executes, the run ends at that poll: nothing is
\* matched, no chunk is created, and no result_ready, unmatched_ready or
\* error is emitted.
C22_PollsEndRun ==
    [][(is_cancelled /\ PollAhead) =>
          /\ pc' = "done"
          /\ matched_pairs' = <<>> /\ matched_source_files' = {}
          /\ chunks' = <<>> /\ pending' = {}
          /\ \A i \in 1..Len(signals') :
                signals'[i][1] \in {"file_counts_ready", "progress"}
      ]_vars

\* a run cancelled while indexing, ended by the poll after the batch
C22_Witness ==
    /\ DirectoryMode /\ is_cancelled /\ pc = "done"
    /\ source_files # <<>> /\ target_files # <<>>
    /\ target_dict # EmptyDict
    /\ signals[Len(signals)] = Progress(40, 100)
    /\ matched_pairs = <<>>

\* two lists hold the same elements with the same multiplicities
SameBag(a, b) ==
    /\ Len(a) = Len(b)
    /\ \A x \in Range(a) \cup Range(b) :
          Cardinality({i \in 1..Len(a) : a[i] = x})
              = Cardinality({i \in 1..Len(b) : b[i] = x})
\* the result list of chunk i on the directory-mode parallel paths
ChunkResultOf(i) ==
    IF pc = "merge_name"
    THEN ProcessChunkByName(chunks[i], target_dict, target_dict_no_ext)
    ELSE ProcessChunkById(chunks[i], s_dict)
\* the pair list of the sequential path on the same listings
SequentialPairs == PairsOfRun(FALSE, source_files, target_files)

\* C23: on the parallel paths of the full-name and id bases, whichever chunk
\* completes next, its result list is appended whole to the pair list, and
\* once the last chunk is merged the pair list is a permutation of the
\* sequential pair list (same pairs, same multiplicities) and the
\* matched-source set equals the sequential one.
C23_MergeIsPermutation ==
    [][(pc \in {"merge_name", "merge_id"} /\ pending' # pending
            /\ pc' # "done") =>
          /\ \E i \in pending \ pending' :
                /\ pending' = pending \ {i}
                /\ matched_pairs' = matched_pairs \o ChunkResultOf(i)
          /\ pc' = "emit" =>
                /\ SameBag(matched_pairs', SequentialPairs)
                /\ matched_source_files' = SourcesOf(SequentialPairs)
      ]_vars

\* chunks were merged in an order other than the list order
C23_Witness ==
    /\ DirectoryMode /\ UsedThreads /\ Emitted("result_ready")
    /\ Len(ResultPairs) >= 2
    /\ ResultPairs # SequentialPairs
    /\ SameBag(ResultPairs, SequentialPairs)

\* the result list of chunk i on whichever parallel path is running
AnyChunkResultOf(i) ==
    IF pc = "merge_text" THEN ProcessChunkByText(chunks[i], keywords)
    ELSE ChunkResultOf(i)

\* C24: while chunks execute, the shared indices (target_dict,
\* target_dict_no_ext, s_dict), the keyword list, the file lists and the
\* chunks are never modified, and the pair list and the matched sets change
\* only when the merging thread takes one completed chunk and appends that
\* chunk's own result list.
C24_ChunksOnlyRead ==
    [][LET results == <<matched_pairs, matched_source_files, matched_keywords>>
           MergesOne(i) ==
               /\ pending' = pending \ {i}
               /\ completed' = completed + 1
               /\ matched_pairs' = matched_pairs \o AnyChunkResultOf(i)
               /\ (matched_source_files' \ matched_source_files)
                     \subseteq SourcesOf(AnyChunkResultOf(i))
               /\ (matched_keywords' \ matched_keywords)
                     \subseteq KeysOf(AnyChunkResultOf(i))
       IN pc \in ChunkPhases =>
             /\ UNCHANGED <<target_dict, target_dict_no_ext, s_dict, keywords,
                            source_files, target_files, chunks>>
             /\ results' # results => \E i \in pending : MergesOne(i)
      ]_vars

\* two keyword chunks merged, others still executing
C24_Witness ==
    /\ pc = "merge_text" /\ completed >= 2 /\ pending # {}
    /\ matched_pairs # <<>> /\ matched_keywords # {}
    /\ Len(keywords) >= 2

\* the concatenation of the chunks cs, in order
Flatten(cs) ==
    LET Same(c) == c
    IN ConcatMap(Same, cs, 1, Len(cs))
\* the chunks of _split_list(items, count) are non-empty and concatenate to
\* items
SplitsWell(items, count) ==
    LET cs == SplitList(items, count)
    IN /\ (items = <<>>) = (cs = <<>>)
       /\ \A c \in 1..Len(cs) : cs[c] # <<>>
       /\ Flatten(cs) = items
\* a run has just split its list
JustSplit == UsedThreads /\ pc \in ChunkPhases /\ completed = 0

\* C25: for every item list and every positive chunk count the chunks of
\* _split_list are non-empty contiguous pieces whose concatenation in order is
\* the list, and an empty list gives no chunk; checked on the list a run
\* splits, on its empty and short prefixes, for the counts 1 to 8.
C25_SplitConcatenates ==
    JustSplit =>
        /\ Flatten(chunks) = ParallelList
        /\ \A c \in 1..Len(chunks) : chunks[c] # <<>>
        /\ \A count \in 1..(2 * MinThreads) :
              \A n \in (0..(2 * MinThreads + 1)) \cup {Len(ParallelList)} :
                  SplitsWell(SubSeq(ParallelList, 1, n), count)

\* a split that leaves a shorter last chunk beyond the requested count
C25_Witness ==
    /\ JustSplit
    /\ Len(chunks) > thread_count
    /\ Len(chunks[Len(chunks)]) < Len(chunks[1])
    /\ SplitList(<<>>, thread_count) = <<>>

\* the positions just before each piece of s: 0 and every newline or semicolon
PieceStarts(s) == {0} \cup {i \in 1..Len(s) : s[i] \in {10, 59}}
\* the piece of s that starts after position a
PieceAfter(s, a) ==
    LET ends == {b \in (PieceStarts(s) \cup {Len(s) + 1}) : b > a}
    IN SubSeq(s, a + 1, (CHOOSE b \in ends : \A e \in ends : b <= e) - 1)
\* p without its leading and trailing whitespace
Trimmed(p) ==
    LET ink == {i \in 1..Len(p) : p[i] \notin Whitespace}
    IN IF ink = {} THEN <<>>
       ELSE SubSeq(p, CHOOSE i \in ink : \A j \in ink : i <= j,
                      CHOOSE i \in ink : \A j \in ink : j <= i)
\* the trimmed, non-empty pieces of s in their order
PiecesOf(s) ==
    LET starts == PieceStarts(s)
        Nth(k) == CHOOSE a \in starts :
                      Cardinality({b \in starts : b < a}) = k - 1
    IN SelectSeq([k \in 1..Cardinality(starts) |->
                     Trimmed(PieceAfter(s, Nth(k)))],
                 LAMBDA kw : kw # <<>>)

\* C26: the keyword sequence of a keyword-mode run is the input text cut at
\* every newline and semicolon, each piece trimmed, the empty pieces dropped,
\* the others kept in their order, repeated ones included.
C26_KeywordsArePieces ==
    /\ keywords # <<>> => KeywordMode /\ keywords = PiecesOf(text_input)
    /\ pc \in {"keyword", "merge_text"} =>
          keywords # <<>> /\ keywords = PiecesOf(text_input)

\* a parsed sequence with a trimmed piece and a repeated keyword
C26_Witness ==
    /\ KeywordMode /\ Emitted("result_ready")
    /\ Len(keywords) = 3 /\ keywords[2] = keywords[3]
    /\ Len(text_input) > Len(keywords[1]) + Len(keywords[2])
                           + Len(keywords[3]) + 2

ExpandMode == KeywordMode /\ text_match_basis # 0 /\ expand_search
\* the keyword k is a substring of no scanned target file name
InNoName(k) == \A t \in ScannedTargets : ~Contains(k, t[2])
\* the first keyword in request order that the file name n contains
FirstKeywordIn(n) ==
    keywords[CHOOSE i \in KeywordsIn(n) : \A j \in KeywordsIn(n) : i <= j]
\* no scanned target file name has k as the first keyword it contains
FirstInNoName(k) ==
    \A t \in ScannedTargets :
        KeywordsIn(t[2]) = {} \/ FirstKeywordIn(t[2]) # k

UiIdle == ui.match_btn /\ ~ui.progress_visible /\ ~ui.cancel_visible

\* C28: once match_files has started a run, however the run ends, the
\* window eventually returns to idle: the match button enabled, the
\* progress bar and the cancel button hidden
C28_UiReturnsToIdle == (run > 0) ~> UiIdle

(* ------------------------ C29: one run at a time ----------------------- *)
\* C29: what the window shows comes from the worker started last: a filled
\* table was filled by its result_ready from the lists of its
\* unmatched_ready, and a match button that is enabled again was enabled by
\* its result_ready or error
C29_OnlyLatestRunShown ==
    /\ ui.table_run # 0 =>
          ui.table_run = run /\ ui.table_lists_run = run
    /\ run > 0 /\ ui.match_btn => ui.enabled_run = run

(* -------------------- C30: the lists before the pairs ------------------ *)
\* C30: a run that emits result_ready has emitted unmatched_ready exactly
\* once, earlier; so a filled table was built from the unmatched lists of
\* the run that filled it, and it has matched_count + |unmatched sources| +
\* |unmatched keywords| rows, one stored tuple each
C30_UnmatchedBeforeResult ==
    /\ \A i \in 1..Len(signals) : signals[i][1] = "result_ready" =>
          /\ CountOf("unmatched_ready") = 1
          /\ \E j \in 1..(i - 1) : signals[j][1] = "unmatched_ready"
    /\ ui.table_run # 0 =>
          /\ ui.table_lists_run = ui.table_run
          /\ Len(ui.matched_files) = ui.row_count
    /\ run > 0 /\ ui.table_run = run =>
          ui.row_count = Len(ResultPairs) + Len(UnmatchedSources)
                         + Len(UnmatchedKeywordList)

\* the second worker's table: some pair, something unmatched
C30_Witness ==
    /\ run = 2 /\ ui.table_run = 2
    /\ ui.lists_run = 2
    /\ Len(ResultPairs) > 0
    /\ Len(UnmatchedSources) + Len(UnmatchedKeywordList) > 0
    /\ ui.row_count > Len(ResultPairs)

====
